---- MODULE Spec2Model ----
(***************************************************************************)
(* A model of the 6502 core of src/src/cpu.rs: the register file, the      *)
(* memory array, the stack helpers, the addressing-mode decoder, the       *)
(* per-mnemonic routines and the fetch/decode/execute loop of CPU::run,    *)
(* driven by a host that constructs, loads, resets, arranges and runs.     *)
(*                                                                         *)
(* A panic of the Rust code (index out of bounds, arithmetic overflow in   *)
(* a build with overflow checks, todo!(), panic!()) is an outcome of the   *)
(* model: the step that panics leaves the CPU as the panic found it and     *)
(* records the kind of panic.  Whether `+` on u8/u16 panics or wraps depends on the    *)
(* build (overflow checks are on in debug and test builds, off in release  *)
(* builds); the model carries the build as the variable overflow_checks.   *)
(* Nothing the host does before run can overflow, so the model draws the   *)
(* build when run is entered.                                              *)
(***************************************************************************)
EXTENDS Integers, Sequences, FiniteSets, TLC

VARIABLES
    register_a,       \* CPU.register_a: u8
    register_x,       \* CPU.register_x: u8
    register_y,       \* CPU.register_y: u8
    status,           \* CPU.status: u8
    program_counter,  \* CPU.program_counter: u16
    stack_pointer,    \* CPU.stack_pointer: u8
    memory,           \* CPU.memory: the non-zero cells of the array, by address
    overflow_checks,  \* the build of the run: TRUE when integer overflow panics
    phase,            \* where the host is: new, loaded, ready, running, returned, panicked, reset
    panic,            \* the kind of panic that ended execution, or NoPanic
    writes,           \* register fields and memory cells the host has written
    steps,            \* instructions executed by the current run
    last,             \* the last iteration of the run loop: opcode, its address, the CPU before it
    last2,            \* the iteration before that
    last3,            \* and the one before that
    wrote,            \* the host's last mem_write: its address and byte
    loaded            \* the byte vector the host passed to load, <<>> before it

vars == <<register_a, register_x, register_y, status, program_counter,
          stack_pointer, memory, overflow_checks, phase, panic, writes, steps, last, last2, last3,
          wrote, loaded>>

(***************************************************************************)
(* Bounds of the model.                                                    *)
(***************************************************************************)
\* instructions one run is followed for
MaxSteps == 6
\* register fields and memory cells the host writes before the run
MaxHostWrites == 1

(***************************************************************************)
(* Outcomes.                                                               *)
(***************************************************************************)
NoPanic               == "none"
IndexOutOfBounds      == "IndexOutOfBounds"       \* self.memory[addr as usize], addr = 0xffff
ArithmeticOverflow    == "ArithmeticOverflow"     \* `+` overflowing with overflow checks on
UnknownOpcode         == "UnknownOpcode"          \* the todo!("") arm of run
InvalidAddressingMode == "InvalidAddressingMode"  \* the panic!() arms of get_operand_address
SliceOutOfRange       == "SliceOutOfRange"        \* the slice of load past the array's end

(***************************************************************************)
(* Bytes, words and the bit operations of u8.                              *)
(***************************************************************************)
Byte == 0 .. 255
Pow2 == <<1, 2, 4, 8, 16, 32, 64, 128>>

\* bit i (0 = least significant) of the byte v
Bit(v, i) == (v \div Pow2[i + 1]) % 2

\* a & b on u8
BitAnd(a, b) ==
    LET t(i) == Pow2[i + 1] * (Bit(a, i) * Bit(b, i))
    IN  t(0) + t(1) + t(2) + t(3) + t(4) + t(5) + t(6) + t(7)

\* a | b on u8
BitOr(a, b) ==
    LET t(i) == Pow2[i + 1] * (IF Bit(a, i) + Bit(b, i) > 0 THEN 1 ELSE 0)
    IN  t(0) + t(1) + t(2) + t(3) + t(4) + t(5) + t(6) + t(7)

\* a ^ b on u8
BitXor(a, b) ==
    LET t(i) == Pow2[i + 1] * ((Bit(a, i) + Bit(b, i)) % 2)
    IN  t(0) + t(1) + t(2) + t(3) + t(4) + t(5) + t(6) + t(7)

\* !a on u8
BitNot(a) == 255 - a

\* status |= mask
SetFlag(p, mask) == BitOr(p, mask)

\* status &= !mask
ClearFlag(p, mask) == BitAnd(p, BitNot(mask))

\* if cond { status |= mask } else { status &= !mask }
PutFlag(p, mask, cond) == IF cond THEN SetFlag(p, mask) ELSE ClearFlag(p, mask)

\* the masks the routines use
CARRY    == 1
ZERO     == 2
IRQ      == 4
DECIMAL  == 8
BREAK    == 16
UNUSED   == 32
OVERFLOW == 64
NEGATIVE == 128

(***************************************************************************)
(* The memory array.  memory: [u8; 0xffff] has 0xffff = 65535 cells, with  *)
(* indices 0 .. 0xfffe; it starts all zero.  The model keeps the non-zero  *)
(* cells only, as a function from their addresses.                         *)
(***************************************************************************)
MEMORY_LEN == 65535

\* self.memory[addr as usize] is in bounds
InBounds(addr) == addr < MEMORY_LEN

\* the cell at addr, for addr in bounds
Cell(mem, addr) == IF addr \in DOMAIN mem THEN mem[addr] ELSE 0

\* the array with the cell at addr set to data, for addr in bounds
Store(mem, addr, data) ==
    [a \in (IF data = 0 THEN (DOMAIN mem) \ {addr} ELSE (DOMAIN mem) \cup {addr})
        |-> IF a = addr THEN data ELSE mem[a]]

(***************************************************************************)
(* The CPU as a value: the routines below take the CPU and give the CPU    *)
(* after them.  err is the panic raised on the way, if any; a CPU with a   *)
(* panic is passed through unchanged by everything that follows.           *)
(***************************************************************************)
Cpu == [a   |-> register_a,  x  |-> register_x,      y   |-> register_y,
        p   |-> status,      pc |-> program_counter, sp  |-> stack_pointer,
        mem |-> memory,      err |-> NoPanic]

Fail(c, e) == IF c.err # NoPanic THEN c ELSE [c EXCEPT !.err = e]

Ok(c) == c.err = NoPanic

\* the result of an expression that may panic: the value, or the panic
Val(v) == [err |-> NoPanic, val |-> v]
Err(e) == [err |-> e, val |-> 0]

\* `let v = r; F(v)`, F giving a result: a panic in r is the panic of the whole
Bind(r, F(_)) == IF r.err # NoPanic THEN r ELSE F(r.val)

\* `let v = r; F(v)`, F giving the CPU: a panic in r leaves the CPU c, panicked
Then(r, c, F(_)) == IF r.err # NoPanic THEN Fail(c, r.err) ELSE F(r.val)

\* a + b on u16 written with `+`: panics or wraps, by the build
AddU16(a, b, chk) ==
    IF a + b > 65535
    THEN (IF chk THEN Err(ArithmeticOverflow) ELSE Val((a + b) % 65536))
    ELSE Val(a + b)

\* a + b on u8 written with `+`: panics or wraps, by the build
AddU8(a, b, chk) ==
    IF a + b > 255
    THEN (IF chk THEN Err(ArithmeticOverflow) ELSE Val((a + b) % 256))
    ELSE Val(a + b)

mem_read(c, addr) ==
    IF InBounds(addr) THEN Val(Cell(c.mem, addr)) ELSE Err(IndexOutOfBounds)

mem_write(c, addr, data) ==
    IF ~Ok(c) THEN c
    ELSE IF InBounds(addr) THEN [c EXCEPT !.mem = Store(c.mem, addr, data)]
    ELSE Fail(c, IndexOutOfBounds)

\* (hi << 8) | lo
mem_read_u16(c, pos, chk) ==
    Bind(mem_read(c, pos), LAMBDA lo :
    Bind(AddU16(pos, 1, chk), LAMBDA pos1 :
    Bind(mem_read(c, pos1), LAMBDA hi : Val(hi * 256 + lo))))

mem_write_u16(c, pos, data, chk) ==
    LET hi == data \div 256
        lo == data % 256
    IN  Then(AddU16(pos, 1, chk), mem_write(c, pos, lo),
             LAMBDA pos1 : mem_write(mem_write(c, pos, lo), pos1, hi))

(***************************************************************************)
(* The stack, in page 1.                                                   *)
(***************************************************************************)
STACK == 256

\* a pop that does not wrap the stack pointer at 0xFF
stack_pop_saturating(c) ==
    IF ~Ok(c) THEN c ELSE [c EXCEPT !.sp = IF c.sp = 255 THEN 255 ELSE c.sp + 1]

\* the CPU after stack_pop; the byte popped is StackTop of that CPU
stack_pop(c) ==
    IF ~Ok(c) THEN c ELSE [c EXCEPT !.sp = (c.sp + 1) % 256]

\* the byte stack_pop returns, read after the increment
StackTop(c) == Cell(c.mem, STACK + c.sp)

\* a push that moves the stack pointer before it writes
stack_push_predecrement(c, data) ==
    IF ~Ok(c) THEN c
    ELSE mem_write([c EXCEPT !.sp = (c.sp - 1 + 256) % 256],
                   STACK + ((c.sp - 1 + 256) % 256), data)

stack_push(c, data) ==
    IF ~Ok(c) THEN c
    ELSE [mem_write(c, STACK + c.sp, data) EXCEPT !.sp = (c.sp - 1 + 256) % 256]

\* the CPU after stack_pop_u16 and the word it returns
stack_pop_u16(c) ==
    LET c1 == stack_pop(c)
        c2 == stack_pop(c1)
    IN  [cpu |-> c2, val |-> StackTop(c2) * 256 + StackTop(c1)]

stack_push_u16(c, data) ==
    LET hi == data \div 256
        lo == data % 256
    IN  stack_push(stack_push(c, hi), lo)

(***************************************************************************)
(* The addressing-mode decoder.  program_counter is the address of the     *)
(* first operand byte when it is called.                                   *)
(***************************************************************************)
\* `x as i8 as u16`: the sign extension of a byte to a word
SignExtend(b) == IF b >= 128 THEN 65280 + b ELSE b

\* a decoder whose zero-page indexing carries into page 1
get_operand_address_zero_page_carry(c, mode, chk) ==
    CASE mode = "Implied"     -> Err(InvalidAddressingMode)
      [] mode = "Accumulator" -> Err(InvalidAddressingMode)
      [] mode = "Immediate"   -> Val(c.pc)
      [] mode = "ZeroPage"    -> mem_read(c, c.pc)
      [] mode = "ZeroPage_X"  ->
            Bind(mem_read(c, c.pc), LAMBDA pos : Val(pos + c.x))
      [] mode = "ZeroPage_Y"  ->
            Bind(mem_read(c, c.pc), LAMBDA pos : Val(pos + c.y))
      [] mode = "Relative"    ->
            Bind(mem_read(c, c.pc), LAMBDA base :
            Bind(AddU16(c.pc, 1, chk), LAMBDA next :
                Val((SignExtend(base) + next) % 65536)))
      [] mode = "Absolute"    -> mem_read_u16(c, c.pc, chk)
      [] mode = "Absolute_X"  ->
            Bind(mem_read_u16(c, c.pc, chk), LAMBDA base : Val((base + c.x) % 65536))
      [] mode = "Absolute_Y"  ->
            Bind(mem_read_u16(c, c.pc, chk), LAMBDA base : Val((base + c.y) % 65536))
      [] mode = "Indirect"    ->
            Bind(mem_read_u16(c, c.pc, chk), LAMBDA base : mem_read_u16(c, base, chk))
      [] mode = "Indirect_X"  ->
            Bind(mem_read(c, c.pc), LAMBDA base :
                mem_read_u16(c, (base + c.x) % 256, chk))
      [] mode = "Indirect_Y"  ->
            Bind(mem_read(c, c.pc), LAMBDA base :
            Bind(mem_read_u16(c, base, chk), LAMBDA deref_base :
                Val((deref_base + c.y) % 65536)))
      [] OTHER                -> Err(InvalidAddressingMode)

get_operand_address(c, mode, chk) ==
    CASE mode = "Implied"     -> Err(InvalidAddressingMode)
      [] mode = "Accumulator" -> Err(InvalidAddressingMode)
      [] mode = "Immediate"   -> Val(c.pc)
      [] mode = "ZeroPage"    -> mem_read(c, c.pc)
      [] mode = "ZeroPage_X"  ->
            Bind(mem_read(c, c.pc), LAMBDA pos : Val((pos + c.x) % 256))
      [] mode = "ZeroPage_Y"  ->
            Bind(mem_read(c, c.pc), LAMBDA pos : Val((pos + c.y) % 256))
      [] mode = "Relative"    ->
            Bind(mem_read(c, c.pc), LAMBDA base :
            Bind(AddU16(c.pc, 1, chk), LAMBDA next :
                Val((SignExtend(base) + next) % 65536)))
      [] mode = "Absolute"    -> mem_read_u16(c, c.pc, chk)
      [] mode = "Absolute_X"  ->
            Bind(mem_read_u16(c, c.pc, chk), LAMBDA base : Val((base + c.x) % 65536))
      [] mode = "Absolute_Y"  ->
            Bind(mem_read_u16(c, c.pc, chk), LAMBDA base : Val((base + c.y) % 65536))
      [] mode = "Indirect"    ->
            Bind(mem_read_u16(c, c.pc, chk), LAMBDA base : mem_read_u16(c, base, chk))
      [] mode = "Indirect_X"  ->
            Bind(mem_read(c, c.pc), LAMBDA base :
                mem_read_u16(c, (base + c.x) % 256, chk))
      [] mode = "Indirect_Y"  ->
            Bind(mem_read(c, c.pc), LAMBDA base :
            Bind(mem_read_u16(c, base, chk), LAMBDA deref_base :
                Val((deref_base + c.y) % 65536)))
      [] OTHER                -> Err(InvalidAddressingMode)

\* `let addr = self.get_operand_address(mode); let value = self.mem_read(addr);`
\* the address and the value there, or the panic
operand(c, mode, chk) ==
    Bind(get_operand_address(c, mode, chk), LAMBDA addr :
    Bind(mem_read(c, addr), LAMBDA value : Val([addr |-> addr, val |-> value])))

(***************************************************************************)
(* The ALU helpers.                                                        *)
(***************************************************************************)
\* flags that are set when they apply and never cleared
update_flags_set_only(c, result) ==
    IF ~Ok(c) THEN c
    ELSE [c EXCEPT !.p = BitOr(BitOr(c.p, IF result = 0 THEN ZERO ELSE 0),
                               IF BitAnd(result, 128) # 0 THEN NEGATIVE ELSE 0)]

update_zero_and_negative_flags(c, result) ==
    IF ~Ok(c) THEN c
    ELSE [c EXCEPT !.p = PutFlag(PutFlag(c.p, ZERO, result = 0),
                                 NEGATIVE, BitAnd(result, 128) # 0)]

set_register_a(c, value) ==
    update_zero_and_negative_flags([c EXCEPT !.a = value], value)

\* the flags and the accumulator of add_to_register_a, rhs being value + carry
AddFlags(c, value, rhs) ==
    LET result        == (c.a + rhs) % 256
        carry_flag    == c.a + rhs > 255
        overflow_flag == /\ BitAnd(c.a, 128) = BitAnd(value, 128)
                         /\ BitAnd(value, 128) # BitAnd(result, 128)
    IN  set_register_a(
            [c EXCEPT !.p = PutFlag(PutFlag(c.p, CARRY, carry_flag),
                                    OVERFLOW, overflow_flag)],
            result)

\* register_a.overflowing_add(value + carry): the inner `+` is a plain u8 addition
add_to_register_a(c, value, chk) ==
    Then(AddU8(value, BitAnd(c.p, CARRY), chk), c, LAMBDA rhs : AddFlags(c, value, rhs))

branch(c, condition, chk) ==
    IF ~condition THEN c
    ELSE Then(get_operand_address(c, "Relative", chk), c,
              LAMBDA addr : [c EXCEPT !.pc = addr])

\* a compare whose carry means strictly greater
compare_carry_if_greater(c, mode, target, chk) ==
    Then(operand(c, mode, chk), c, LAMBDA o :
        update_zero_and_negative_flags(
            [c EXCEPT !.p = PutFlag(c.p, CARRY, target > o.val)],
            (target - o.val + 256) % 256))

compare(c, mode, target, chk) ==
    Then(operand(c, mode, chk), c, LAMBDA o :
        update_zero_and_negative_flags(
            [c EXCEPT !.p = PutFlag(c.p, CARRY, target >= o.val)],
            (target - o.val + 256) % 256))

(***************************************************************************)
(* The routines, one per mnemonic, in the order of the source.             *)
(***************************************************************************)
adc(c, mode, chk) ==
    Then(operand(c, mode, chk), c, LAMBDA o :
        add_to_register_a(c, o.val, chk))

and(c, mode, chk) ==
    Then(operand(c, mode, chk), c, LAMBDA o :
        set_register_a(c, BitAnd(c.a, o.val)))

\* the result and the carry of asl on the byte v (overflowing_mul(2))
AslOf(v, p) == [result |-> (v * 2) % 256, carry_flag |-> v * 2 > 255]

\* a shift that asks for an operand address whatever its mode
asl_always_addressed(c, mode, chk) ==
    Then(operand(c, mode, chk), c, LAMBDA o :
        update_zero_and_negative_flags(
            [mem_write(c, o.addr, AslOf(o.val, c.p).result)
                EXCEPT !.p = PutFlag(c.p, CARRY, AslOf(o.val, c.p).carry_flag)],
            AslOf(o.val, c.p).result))

asl(c, mode, chk) ==
    IF mode = "Accumulator"
    THEN LET s == AslOf(c.a, c.p) IN
         update_zero_and_negative_flags(
             [c EXCEPT !.a = s.result, !.p = PutFlag(c.p, CARRY, s.carry_flag)],
             s.result)
    ELSE Then(operand(c, mode, chk), c, LAMBDA o :
             LET s == AslOf(o.val, c.p) IN
             update_zero_and_negative_flags(
                 [mem_write(c, o.addr, s.result)
                     EXCEPT !.p = PutFlag(c.p, CARRY, s.carry_flag)],
                 s.result))

bcc(c, chk) == branch(c, BitAnd(c.p, CARRY) # CARRY, chk)

bcs(c, chk) == branch(c, BitAnd(c.p, CARRY) = CARRY, chk)

beq(c, chk) == branch(c, BitAnd(c.p, ZERO) = ZERO, chk)

bit(c, mode, chk) ==
    Then(operand(c, mode, chk), c, LAMBDA o :
        [c EXCEPT !.p = PutFlag(PutFlag(PutFlag(c.p,
                        ZERO, BitAnd(c.a, o.val) = 0),
                        NEGATIVE, BitAnd(o.val, 128) # 0),
                        OVERFLOW, BitAnd(o.val, 64) # 0)])

bmi(c, chk) == branch(c, BitAnd(c.p, NEGATIVE) = NEGATIVE, chk)

bne(c, chk) == branch(c, BitAnd(c.p, ZERO) # ZERO, chk)

bpl(c, chk) == branch(c, BitAnd(c.p, NEGATIVE) # NEGATIVE, chk)

bvc(c, chk) == branch(c, BitAnd(c.p, OVERFLOW) # OVERFLOW, chk)

bvs(c, chk) == branch(c, BitAnd(c.p, OVERFLOW) = OVERFLOW, chk)

clc(c) == [c EXCEPT !.p = ClearFlag(c.p, CARRY)]

cld(c) == [c EXCEPT !.p = ClearFlag(c.p, DECIMAL)]

cli(c) == [c EXCEPT !.p = ClearFlag(c.p, IRQ)]

clv(c) == [c EXCEPT !.p = ClearFlag(c.p, OVERFLOW)]

cmp(c, mode, chk) == compare(c, mode, c.a, chk)

cpx(c, mode, chk) == compare(c, mode, c.x, chk)

cpy(c, mode, chk) == compare(c, mode, c.y, chk)

\* wrapping_sub(1) and wrapping_add(1) on u8
WrappingDec(v) == (v - 1 + 256) % 256
\* an increment that stops at 0xFF
SaturatingInc(v) == IF v = 255 THEN 255 ELSE v + 1
WrappingInc(v) == (v + 1) % 256

dec(c, mode, chk) ==
    Then(operand(c, mode, chk), c, LAMBDA o :
        update_zero_and_negative_flags(
            mem_write(c, o.addr, WrappingDec(o.val)), WrappingDec(o.val)))

dex(c) ==
    update_zero_and_negative_flags([c EXCEPT !.x = WrappingDec(c.x)], WrappingDec(c.x))

dey(c) ==
    update_zero_and_negative_flags([c EXCEPT !.y = WrappingDec(c.y)], WrappingDec(c.y))

\* an exclusive or that keeps the bits set in both
eor_as_inclusive_or(c, mode, chk) ==
    Then(operand(c, mode, chk), c, LAMBDA o :
        set_register_a(c, BitOr(c.a, o.val)))

eor(c, mode, chk) ==
    Then(operand(c, mode, chk), c, LAMBDA o :
        set_register_a(c, BitXor(c.a, o.val)))

inc(c, mode, chk) ==
    Then(operand(c, mode, chk), c, LAMBDA o :
        update_zero_and_negative_flags(
            mem_write(c, o.addr, WrappingInc(o.val)), WrappingInc(o.val)))

inx(c) ==
    update_zero_and_negative_flags([c EXCEPT !.x = WrappingInc(c.x)], WrappingInc(c.x))

iny(c) ==
    update_zero_and_negative_flags([c EXCEPT !.y = WrappingInc(c.y)], WrappingInc(c.y))

jmp(c, mode, chk) ==
    Then(get_operand_address(c, mode, chk), c, LAMBDA addr : [c EXCEPT !.pc = addr])

\* stack_push_u16(program_counter + 2 - 1): the `+ 2` comes first
jsr(c, mode, chk) ==
    Then(get_operand_address(c, mode, chk), c, LAMBDA addr :
    Then(AddU16(c.pc, 2, chk), c, LAMBDA ret :
        [stack_push_u16(c, ret - 1) EXCEPT !.pc = addr]))

lda(c, mode, chk) ==
    Then(operand(c, mode, chk), c, LAMBDA o :
        update_zero_and_negative_flags([c EXCEPT !.a = o.val], o.val))

ldx(c, mode, chk) ==
    Then(operand(c, mode, chk), c, LAMBDA o :
        update_zero_and_negative_flags([c EXCEPT !.x = o.val], o.val))

ldy(c, mode, chk) ==
    Then(operand(c, mode, chk), c, LAMBDA o :
        update_zero_and_negative_flags([c EXCEPT !.y = o.val], o.val))

\* the result and the carry of lsr on the byte v
LsrOf(v, p) == [result |-> v \div 2, carry_flag |-> BitAnd(v, 1) = 1]

lsr(c, mode, chk) ==
    IF mode = "Accumulator"
    THEN LET s == LsrOf(c.a, c.p) IN
         update_zero_and_negative_flags(
             [c EXCEPT !.a = s.result, !.p = PutFlag(c.p, CARRY, s.carry_flag)],
             s.result)
    ELSE Then(operand(c, mode, chk), c, LAMBDA o :
             LET s == LsrOf(o.val, c.p) IN
             update_zero_and_negative_flags(
                 [mem_write(c, o.addr, s.result)
                     EXCEPT !.p = PutFlag(c.p, CARRY, s.carry_flag)],
                 s.result))

nop(c) == c

ora(c, mode, chk) ==
    Then(operand(c, mode, chk), c, LAMBDA o :
        set_register_a(c, BitOr(c.a, o.val)))

pha(c) == stack_push(c, c.a)

php(c) == stack_push(c, BitOr(BitOr(c.p, BREAK), UNUSED))

\* the CPU c, just popped, with its accumulator set to the byte popped
pla(c) == set_register_a(stack_pop(c), StackTop(stack_pop(c)))

\* a pulled status byte taken as it was pushed
PulledStatusAsPushed(value) == value

\* value & !0b00010000 | 0b00100000
PulledStatus(value) == BitOr(BitAnd(value, BitNot(BREAK)), UNUSED)

plp(c) == [stack_pop(c) EXCEPT !.p = PulledStatus(StackTop(stack_pop(c)))]

\* the result and the carry of rol on the byte v
RolOf(v, p) == [result |-> BitOr((v * 2) % 256, BitAnd(p, CARRY)), carry_flag |-> v * 2 > 255]

rol(c, mode, chk) ==
    IF mode = "Accumulator"
    THEN LET s == RolOf(c.a, c.p) IN
         update_zero_and_negative_flags(
             [c EXCEPT !.a = s.result, !.p = PutFlag(c.p, CARRY, s.carry_flag)],
             s.result)
    ELSE Then(operand(c, mode, chk), c, LAMBDA o :
             LET s == RolOf(o.val, c.p) IN
             update_zero_and_negative_flags(
                 [mem_write(c, o.addr, s.result)
                     EXCEPT !.p = PutFlag(c.p, CARRY, s.carry_flag)],
                 s.result))

\* a rotate right that shifts a zero in
RorOfShiftOnly(v, p) == [result |-> v \div 2, carry_flag |-> BitAnd(v, 1) = 1]

\* the result and the carry of ror on the byte v
RorOf(v, p) == [result |-> BitOr(v \div 2, BitAnd(p, CARRY) * 128), carry_flag |-> BitAnd(v, 1) = 1]

ror(c, mode, chk) ==
    IF mode = "Accumulator"
    THEN LET s == RorOf(c.a, c.p) IN
         update_zero_and_negative_flags(
             [c EXCEPT !.a = s.result, !.p = PutFlag(c.p, CARRY, s.carry_flag)],
             s.result)
    ELSE Then(operand(c, mode, chk), c, LAMBDA o :
             LET s == RorOf(o.val, c.p) IN
             update_zero_and_negative_flags(
                 [mem_write(c, o.addr, s.result)
                     EXCEPT !.p = PutFlag(c.p, CARRY, s.carry_flag)],
                 s.result))

\* a return from interrupt that takes the status byte as it was pushed
rti_keeping_break(c) ==
    LET c1 == stack_pop(c)
        r  == stack_pop_u16(c1)
    IN  [r.cpu EXCEPT !.p = StackTop(c1), !.pc = r.val]

rti(c) ==
    LET c1 == stack_pop(c)
        r  == stack_pop_u16(c1)
    IN  [r.cpu EXCEPT !.p = PulledStatus(StackTop(c1)), !.pc = r.val]

\* stack_pop_u16() + 1: a plain u16 addition
rts(c, chk) ==
    Then(AddU16(stack_pop_u16(c).val, 1, chk), stack_pop_u16(c).cpu,
         LAMBDA addr : [stack_pop_u16(c).cpu EXCEPT !.pc = addr])

\* value.wrapping_neg().wrapping_sub(1)
WrappingNegSub1(value) == (((256 - value) % 256) - 1 + 256) % 256

sbc(c, mode, chk) ==
    Then(operand(c, mode, chk), c, LAMBDA o :
        add_to_register_a(c, WrappingNegSub1(o.val), chk))

sec(c) == [c EXCEPT !.p = SetFlag(c.p, CARRY)]

sed(c) == [c EXCEPT !.p = SetFlag(c.p, DECIMAL)]

sei(c) == [c EXCEPT !.p = SetFlag(c.p, IRQ)]

sta(c, mode, chk) ==
    Then(get_operand_address(c, mode, chk), c, LAMBDA addr : mem_write(c, addr, c.a))

stx(c, mode, chk) ==
    Then(get_operand_address(c, mode, chk), c, LAMBDA addr : mem_write(c, addr, c.x))

sty(c, mode, chk) ==
    Then(get_operand_address(c, mode, chk), c, LAMBDA addr : mem_write(c, addr, c.y))

tax(c) == update_zero_and_negative_flags([c EXCEPT !.x = c.a], c.a)

(***************************************************************************)
(* The arms of `match opcode` in run: the routine called, the addressing   *)
(* mode passed to it, and what the arm adds to program_counter after the   *)
(* routine returns.  A byte with no arm of its own falls to `_ => todo!()`.*)
(***************************************************************************)
Arm(op, mode, adv) == [op |-> op, mode |-> mode, adv |-> adv]

run_arm(opcode) ==
    CASE opcode = \h69 -> Arm("adc", "Immediate", 1)
      [] opcode = \h29 -> Arm("and", "Immediate", 1)
      [] opcode = \h0A -> Arm("asl", "Accumulator", 0)
      [] opcode = \h06 -> Arm("asl", "ZeroPage", 1)
      [] opcode = \h90 -> Arm("bcc", "Relative", 1)
      [] opcode = \hB0 -> Arm("bcs", "Relative", 1)
      [] opcode = \hF0 -> Arm("beq", "Relative", 1)
      [] opcode = \h24 -> Arm("bit", "ZeroPage", 1)
      [] opcode = \h30 -> Arm("bmi", "Relative", 1)
      [] opcode = \hD0 -> Arm("bne", "Relative", 1)
      [] opcode = \h10 -> Arm("bpl", "Relative", 1)
      [] opcode = \h00 -> Arm("brk", "Implied", 0)
      [] opcode = \h50 -> Arm("bvc", "Relative", 1)
      [] opcode = \h70 -> Arm("bvs", "Relative", 1)
      [] opcode = \h18 -> Arm("clc", "Implied", 0)
      [] opcode = \hD8 -> Arm("cld", "Implied", 0)
      [] opcode = \h58 -> Arm("cli", "Implied", 0)
      [] opcode = \hB8 -> Arm("clv", "Implied", 0)
      [] opcode = \hC9 -> Arm("cmp", "Immediate", 1)
      [] opcode = \hE0 -> Arm("cpx", "Immediate", 1)
      [] opcode = \hC0 -> Arm("cpy", "Immediate", 1)
      [] opcode = \hC6 -> Arm("dec", "ZeroPage", 1)
      [] opcode = \hCA -> Arm("dex", "Implied", 0)
      [] opcode = \h88 -> Arm("dey", "Implied", 0)
      [] opcode = \h49 -> Arm("eor", "Immediate", 1)
      [] opcode = \hE6 -> Arm("inc", "ZeroPage", 1)
      [] opcode = \hE8 -> Arm("inx", "Implied", 0)
      [] opcode = \hC8 -> Arm("iny", "Implied", 0)
      [] opcode = \h4C -> Arm("jmp", "Absolute", 0)
      [] opcode = \h6C -> Arm("jmp", "Indirect", 0)
      [] opcode = \h20 -> Arm("jsr", "Absolute", 2)
      [] opcode = \hA9 -> Arm("lda", "Immediate", 1)
      [] opcode = \hA5 -> Arm("lda", "ZeroPage", 1)
      [] opcode = \hB5 -> Arm("lda", "ZeroPage_X", 1)
      [] opcode = \hAD -> Arm("lda", "Absolute", 2)
      [] opcode = \hBD -> Arm("lda", "Absolute_X", 2)
      [] opcode = \hB9 -> Arm("lda", "Absolute_Y", 2)
      [] opcode = \hA1 -> Arm("lda", "Indirect_X", 1)
      [] opcode = \hB1 -> Arm("lda", "Indirect_Y", 1)
      [] opcode = \hA2 -> Arm("ldx", "Immediate", 1)
      [] opcode = \hA0 -> Arm("ldy", "Immediate", 1)
      [] opcode = \h4A -> Arm("lsr", "Accumulator", 0)
      [] opcode = \h46 -> Arm("lsr", "ZeroPage", 1)
      [] opcode = \hEA -> Arm("nop", "Implied", 0)
      [] opcode = \h09 -> Arm("ora", "Immediate", 1)
      [] opcode = \h48 -> Arm("pha", "Implied", 0)
      [] opcode = \h08 -> Arm("php", "Implied", 0)
      [] opcode = \h68 -> Arm("pla", "Implied", 0)
      [] opcode = \h28 -> Arm("plp", "Implied", 0)
      [] opcode = \h2A -> Arm("rol", "Accumulator", 0)
      [] opcode = \h26 -> Arm("rol", "ZeroPage", 1)
      [] opcode = \h6A -> Arm("ror", "Accumulator", 0)
      [] opcode = \h66 -> Arm("ror", "ZeroPage", 1)
      [] opcode = \h40 -> Arm("rti", "Implied", 0)
      [] opcode = \h60 -> Arm("rts", "Implied", 0)
      [] opcode = \hE9 -> Arm("sbc", "Immediate", 1)
      [] opcode = \h38 -> Arm("sec", "Implied", 0)
      [] opcode = \hF8 -> Arm("sed", "Implied", 0)
      [] opcode = \h78 -> Arm("sei", "Implied", 0)
      [] opcode = \h85 -> Arm("sta", "ZeroPage", 1)
      [] opcode = \h95 -> Arm("sta", "ZeroPage_X", 1)
      [] opcode = \h8D -> Arm("sta", "Absolute", 2)
      [] opcode = \h9D -> Arm("sta", "Absolute_X", 2)
      [] opcode = \h99 -> Arm("sta", "Absolute_Y", 2)
      [] opcode = \h81 -> Arm("sta", "Indirect_X", 1)
      [] opcode = \h91 -> Arm("sta", "Indirect_Y", 1)
      [] opcode = \h86 -> Arm("stx", "ZeroPage", 1)
      [] opcode = \h84 -> Arm("sty", "ZeroPage", 1)
      [] opcode = \hAA -> Arm("tax", "None", 0)
      [] OTHER -> Arm("todo", "None", 0)

\* the routine an arm calls, on the CPU after the opcode fetch
execute(c, arm, chk) ==
    LET op == arm.op  mode == arm.mode IN
    CASE op = "adc" -> adc(c, mode, chk)  [] op = "and" -> and(c, mode, chk)
      [] op = "asl" -> asl(c, mode, chk)  [] op = "bcc" -> bcc(c, chk)
      [] op = "bcs" -> bcs(c, chk)        [] op = "beq" -> beq(c, chk)
      [] op = "bit" -> bit(c, mode, chk)  [] op = "bmi" -> bmi(c, chk)
      [] op = "bne" -> bne(c, chk)        [] op = "bpl" -> bpl(c, chk)
      [] op = "bvc" -> bvc(c, chk)        [] op = "bvs" -> bvs(c, chk)
      [] op = "clc" -> clc(c)             [] op = "cld" -> cld(c)
      [] op = "cli" -> cli(c)             [] op = "clv" -> clv(c)
      [] op = "cmp" -> cmp(c, mode, chk)  [] op = "cpx" -> cpx(c, mode, chk)
      [] op = "cpy" -> cpy(c, mode, chk)  [] op = "dec" -> dec(c, mode, chk)
      [] op = "dex" -> dex(c)             [] op = "dey" -> dey(c)
      [] op = "eor" -> eor(c, mode, chk)  [] op = "inc" -> inc(c, mode, chk)
      [] op = "inx" -> inx(c)             [] op = "iny" -> iny(c)
      [] op = "jmp" -> jmp(c, mode, chk)  [] op = "jsr" -> jsr(c, mode, chk)
      [] op = "lda" -> lda(c, mode, chk)  [] op = "ldx" -> ldx(c, mode, chk)
      [] op = "ldy" -> ldy(c, mode, chk)  [] op = "lsr" -> lsr(c, mode, chk)
      [] op = "nop" -> nop(c)             [] op = "ora" -> ora(c, mode, chk)
      [] op = "pha" -> pha(c)             [] op = "php" -> php(c)
      [] op = "pla" -> pla(c)             [] op = "plp" -> plp(c)
      [] op = "rol" -> rol(c, mode, chk)  [] op = "ror" -> ror(c, mode, chk)
      [] op = "rti" -> rti(c)             [] op = "rts" -> rts(c, chk)
      [] op = "sbc" -> sbc(c, mode, chk)  [] op = "sec" -> sec(c)
      [] op = "sed" -> sed(c)             [] op = "sei" -> sei(c)
      [] op = "sta" -> sta(c, mode, chk)  [] op = "stx" -> stx(c, mode, chk)
      [] op = "sty" -> sty(c, mode, chk)  [] op = "tax" -> tax(c)
      [] OTHER      -> Fail(c, UnknownOpcode)

\* an advance of one byte whatever the number of operand bytes
advance_one_byte(c, n, chk) ==
    IF ~Ok(c) \/ n = 0 THEN c
    ELSE Then(AddU16(c.pc, 1, chk), c, LAMBDA pc1 : [c EXCEPT !.pc = pc1])

\* a loop that leaves the program counter where it is
advance_nowhere(c, n, chk) == c

\* `self.program_counter += n`: a plain u16 addition
advance(c, n, chk) ==
    IF ~Ok(c) \/ n = 0 THEN c
    ELSE Then(AddU16(c.pc, n, chk), c, LAMBDA pc1 : [c EXCEPT !.pc = pc1])

\* a loop whose BRK arm pushes the status, as an interrupt would, before it returns
dispatch_brk_pushing_status(c1, opcode, arm, chk) ==
    IF ~Ok(c1) THEN [opcode |-> opcode, cpu |-> c1, returned |-> FALSE]
    ELSE IF arm.op = "brk" THEN [opcode |-> opcode, cpu |-> php(c1), returned |-> TRUE]
    ELSE [opcode |-> opcode, cpu |-> advance(execute(c1, arm, chk), arm.adv, chk),
          returned |-> FALSE]

\* a loop whose fall-through arm does nothing, so an unknown byte is skipped
dispatch_skipping_unknown(c1, opcode, arm, chk) ==
    IF ~Ok(c1) THEN [opcode |-> opcode, cpu |-> c1, returned |-> FALSE]
    ELSE IF arm.op = "brk" THEN [opcode |-> opcode, cpu |-> c1, returned |-> TRUE]
    ELSE IF arm.op = "todo" THEN [opcode |-> opcode, cpu |-> c1, returned |-> FALSE]
    ELSE [opcode |-> opcode, cpu |-> advance(execute(c1, arm, chk), arm.adv, chk),
          returned |-> FALSE]

\* the arm taken for the opcode fetched, on the CPU c1 after `program_counter += 1`
dispatch(c1, opcode, arm, chk) ==
    IF ~Ok(c1) THEN [opcode |-> opcode, cpu |-> c1, returned |-> FALSE]
    ELSE IF arm.op = "brk" THEN [opcode |-> opcode, cpu |-> c1, returned |-> TRUE]
    ELSE [opcode |-> opcode, cpu |-> advance(execute(c1, arm, chk), arm.adv, chk),
          returned |-> FALSE]

\* One iteration of the loop of run: the opcode fetched (-1 when the fetch
\* panics), the CPU after the iteration, and whether run returned.
run_iteration(c, chk) ==
    LET opcode == mem_read(c, c.pc) IN
    IF opcode.err # NoPanic
    THEN [opcode |-> -1, cpu |-> Fail(c, opcode.err), returned |-> FALSE]
    ELSE dispatch(advance(c, 1, chk), opcode.val, run_arm(opcode.val), chk)

(***************************************************************************)
(* The host's operations.                                                  *)
(***************************************************************************)
PROGRAM_BASE == 32768
RESET_VECTOR == 65532

\* memory[0x8000 .. 0x8000 + len].copy_from_slice(program), then the vector
load(c, program, chk) ==
    IF PROGRAM_BASE + Len(program) > MEMORY_LEN THEN Fail(c, SliceOutOfRange)
    ELSE LET range  == PROGRAM_BASE .. (PROGRAM_BASE + Len(program) - 1)
             byte(a) == program[a - PROGRAM_BASE + 1]
             keep   == {a \in DOMAIN c.mem : a \notin range}
             put    == {a \in range : byte(a) # 0}
             copied == [a \in keep \cup put |-> IF a \in range THEN byte(a) ELSE c.mem[a]]
         IN  mem_write_u16([c EXCEPT !.mem = copied], RESET_VECTOR, PROGRAM_BASE, chk)

\* a reset that leaves the status register as it is
reset_keeping_status(c, chk) ==
    Then(mem_read_u16(c, RESET_VECTOR, chk), c, LAMBDA pc :
        [c EXCEPT !.a = 0, !.x = 0, !.y = 0, !.pc = pc])

reset(c, chk) ==
    Then(mem_read_u16(c, RESET_VECTOR, chk), c, LAMBDA pc :
        [c EXCEPT !.a = 0, !.x = 0, !.y = 0, !.p = 0, !.pc = pc])

(***************************************************************************)
(* What the host feeds the CPU: the programs it loads and the values it    *)
(* writes to the public register fields and to memory before a run.        *)
(***************************************************************************)
\* the operand bytes that follow the opcode in the one-instruction programs
OperandTails == { <<0, 0>>, <<1, 128>>, <<128, 127>>, <<255, 255>> }

\* every byte as an opcode, with each operand tail
OpcodeSweep == { <<op>> \o t : op \in Byte, t \in OperandTails }

Scenarios == {
    <<\h20, \h03, \h80, \h60>>,               \* JSR $8003; RTS
    <<\h20, \h03, \h80, \h60, \h00, \h60>>,   \* JSR $8003; RTS; BRK; RTS
    <<\h20, \hFE, \hFF>>,                     \* JSR $FFFE
    <<\h48, \hA9, \h55, \h68>>,               \* PHA; LDA #$55; PLA
    <<\h08, \h28>>,                           \* PHP; PLP
    <<\hE8, \hE8>>,                           \* INX; INX
    <<\hA9, \hFF, \h48, \h48, \h60>>,         \* LDA #$FF; PHA; PHA; RTS
    <<\h2A, \h6A>>,                           \* ROL A; ROR A
    <<\h26, \h10, \h66, \h10>>,               \* ROL $10; ROR $10
    <<\hA9, \hC0, \hAA, \hE8>>,               \* LDA #$C0; TAX; INX
    <<\hA9, \h05, \h8D, \hFC, \hFF>>,         \* LDA #$05; STA $FFFC
    <<\h48, \h68>>,                           \* PHA; PLA
    <<\hA9, \h80, \h48, \hA9, \h55, \h68>>,   \* LDA #$80; PHA; LDA #$55; PLA
    <<\hA9, \hC0, \hAA, \h95, \h80, \h81, \h80>>,  \* LDA #$C0; TAX; STA $80,X; STA ($80,X)
    <<\hA0, \h10, \hA9, \hC0, \h91, \h00>>,   \* LDY #$10; LDA #$C0; STA ($00),Y
    <<\hA0, \h01, \hB9, \h00, \h80>>,         \* LDY #$01; LDA $8000,Y
    <<\hC6, \h10, \hE6, \h10>>,               \* DEC $10; INC $10
    <<\hC6, \h10, \h26, \h10, \h66, \h10>>,   \* DEC $10; ROL $10; ROR $10
    <<\hA9, \h80, \h48, \h48, \h08, \h40>>    \* LDA #$80; PHA; PHA; PHP; RTI
}

\* the operand bytes of the arithmetic programs
ByteSamples == {0, 1, 127, 128, 255}

\* SEC; ADC #b and SEC; SBC #b
CarryPrograms == { <<\h38, op, b>> : op \in {\h69, \hE9}, b \in ByteSamples }

\* the offset of the reset vector from the base of the programs
VectorOffset == RESET_VECTOR - PROGRAM_BASE

\* a program that reaches over the reset vector, and one that reaches the top
\* of the 16-bit address space
LongPrograms == {
    [i \in 1..(VectorOffset + 2) |-> IF i = VectorOffset + 1 THEN \hEA ELSE 0],
    [i \in 1..(65536 - PROGRAM_BASE) |-> 0]
}

Programs == OpcodeSweep \cup Scenarios \cup CarryPrograms \cup LongPrograms

ASamples      == {1, 127, 128, 255}
XSamples      == {1, 255}
YSamples      == {16, 255}
StatusSamples == {1, 195, 255}
SPSamples     == {0, 255}
PCSamples     == {65534, 65535}
\* <<addr, data>> of the host's mem_write calls
MemWrites     == { <<65535, 1>>, <<65534, \hA9>> }

NoInstr == [opcode |-> -2, at |-> -1, pre |-> <<>>, done |-> FALSE]
NoWrite == [addr |-> -1, data |-> -1]

(***************************************************************************)
(* The state machine.                                                      *)
(***************************************************************************)
\* CPU::new()
Init ==
    /\ register_a = 0
    /\ register_x = 0
    /\ register_y = 0
    /\ status = 0
    /\ program_counter = 0
    /\ stack_pointer = 253
    /\ memory = <<>>
    /\ overflow_checks = FALSE
    /\ phase = "new"
    /\ panic = NoPanic
    /\ writes = 0
    /\ steps = 0
    /\ last = NoInstr
    /\ last2 = NoInstr
    /\ last3 = NoInstr
    /\ wrote = NoWrite
    /\ loaded = <<>>

\* the CPU fields become those of c; a panic ends everything
Become(c, nextPhase) ==
    /\ register_a' = c.a
    /\ register_x' = c.x
    /\ register_y' = c.y
    /\ status' = c.p
    /\ program_counter' = c.pc
    /\ stack_pointer' = c.sp
    /\ memory' = c.mem
    /\ panic' = c.err
    /\ phase' = IF c.err # NoPanic THEN "panicked" ELSE nextPhase

Load(program) ==
    /\ phase = "new"
    /\ Become(load(Cpu, program, overflow_checks), "loaded")
    /\ loaded' = program
    /\ UNCHANGED <<overflow_checks, writes, steps, last, last2, last3, wrote>>

\* the model follows one run: a reset after it is the last thing the host does
Reset ==
    /\ phase \in {"new", "loaded", "ready", "returned"}
    /\ Become(reset(Cpu, overflow_checks), IF phase = "returned" THEN "reset" ELSE "ready")
    /\ last' = NoInstr
    /\ last2' = NoInstr
    /\ last3' = NoInstr
    /\ UNCHANGED <<overflow_checks, writes, steps, wrote, loaded>>

SetRegisterA(v) ==
    /\ phase = "ready"
    /\ writes < MaxHostWrites
    /\ register_a' = v
    /\ writes' = writes + 1
    /\ UNCHANGED <<register_x, register_y, status, program_counter, stack_pointer,
                   memory, overflow_checks, phase, panic, steps, last, last2, last3,
                   wrote, loaded>>

SetRegisterX(v) ==
    /\ phase = "ready"
    /\ writes < MaxHostWrites
    /\ register_x' = v
    /\ writes' = writes + 1
    /\ UNCHANGED <<register_a, register_y, status, program_counter, stack_pointer,
                   memory, overflow_checks, phase, panic, steps, last, last2, last3,
                   wrote, loaded>>

SetRegisterY(v) ==
    /\ phase = "ready"
    /\ writes < MaxHostWrites
    /\ register_y' = v
    /\ writes' = writes + 1
    /\ UNCHANGED <<register_a, register_x, status, program_counter, stack_pointer,
                   memory, overflow_checks, phase, panic, steps, last, last2, last3,
                   wrote, loaded>>

SetStatus(v) ==
    /\ phase = "ready"
    /\ writes < MaxHostWrites
    /\ status' = v
    /\ writes' = writes + 1
    /\ UNCHANGED <<register_a, register_x, register_y, program_counter, stack_pointer,
                   memory, overflow_checks, phase, panic, steps, last, last2, last3,
                   wrote, loaded>>

SetStackPointer(v) ==
    /\ phase = "ready"
    /\ writes < MaxHostWrites
    /\ stack_pointer' = v
    /\ writes' = writes + 1
    /\ UNCHANGED <<register_a, register_x, register_y, status, program_counter,
                   memory, overflow_checks, phase, panic, steps, last, last2, last3,
                   wrote, loaded>>

SetProgramCounter(v) ==
    /\ phase = "ready"
    /\ writes < MaxHostWrites
    /\ program_counter' = v
    /\ writes' = writes + 1
    /\ UNCHANGED <<register_a, register_x, register_y, status, stack_pointer,
                   memory, overflow_checks, phase, panic, steps, last, last2, last3,
                   wrote, loaded>>

\* mem_write called by the host, as the tests of the module do
MemWrite(addr, data) ==
    /\ phase = "ready"
    /\ writes < MaxHostWrites
    /\ Become(mem_write(Cpu, addr, data), "ready")
    /\ writes' = writes + 1
    /\ wrote' = [addr |-> addr, data |-> data]
    /\ UNCHANGED <<overflow_checks, steps, last, last2, last3, loaded>>

\* run() is entered, in a build with or without overflow checks
Run(chk) ==
    /\ phase = "ready"
    /\ phase' = "running"
    /\ overflow_checks' = chk
    /\ steps' = 0
    /\ UNCHANGED <<register_a, register_x, register_y, status, program_counter,
                   stack_pointer, memory, panic, writes, last, last2, last3,
                   wrote, loaded>>

\* the variables after an iteration of the loop of run that gave r
Iterated(r) ==
    /\ Become(r.cpu, IF r.returned THEN "returned" ELSE "running")
    /\ last' = [opcode |-> r.opcode, at |-> program_counter, pre |-> Cpu,
                done |-> Ok(r.cpu)]
    /\ last2' = last
    /\ last3' = last2

\* one iteration of the loop of run
Step ==
    /\ phase = "running"
    /\ steps < MaxSteps
    /\ Iterated(run_iteration(Cpu, overflow_checks))
    /\ steps' = steps + 1
    /\ UNCHANGED <<overflow_checks, writes, wrote, loaded>>

Next ==
    \/ \E program \in Programs : Load(program)
    \/ Reset
    \/ \E v \in ASamples : SetRegisterA(v)
    \/ \E v \in XSamples : SetRegisterX(v)
    \/ \E v \in YSamples : SetRegisterY(v)
    \/ \E v \in StatusSamples : SetStatus(v)
    \/ \E v \in SPSamples : SetStackPointer(v)
    \/ \E v \in PCSamples : SetProgramCounter(v)
    \/ \E w \in MemWrites : MemWrite(w[1], w[2])
    \/ \E chk \in BOOLEAN : Run(chk)
    \/ Step

Spec == Init /\ [][Next]_vars

\* an iteration of the loop of run, as the count of iterations shows it: Step
\* is the only action that counts one more, and it can whenever run is under way
Iteration == phase = "running" /\ steps < MaxSteps /\ steps' = steps + 1

\* run is one call: once entered, its loop goes on to the next iteration until
\* it returns or panics
FairSpec == Init /\ [][Next]_vars /\ WF_steps(Iteration)

(***************************************************************************)
(* What the claims speak of: the instruction the last iteration of the     *)
(* loop executed, and the documented 6502 semantics they compare it with.  *)
(***************************************************************************)
\* the last iteration fetched opcode op and its arm ran to the end
Executed(op) == last.opcode = op /\ last.done

\* the byte at offset i of the last instruction, as it was before it ran
OperandByte(i) == Cell(last.pre.mem, last.at + i)

\* the 16-bit operand of the last instruction, little-endian
OperandWord == OperandByte(1) + 256 * OperandByte(2)

\* bit `mask` of the status byte p is set
Flag(p, mask) == (p \div mask) % 2 = 1

BranchOpcodes == {\h10, \h30, \h50, \h70, \h90, \hB0, \hD0, \hF0}

\* the documented condition of each branch, on the status byte p
FlagCondition(opcode, p) ==
    CASE opcode = \h90 -> ~Flag(p, CARRY)        \* BCC
      [] opcode = \hB0 -> Flag(p, CARRY)         \* BCS
      [] opcode = \hF0 -> Flag(p, ZERO)          \* BEQ
      [] opcode = \hD0 -> ~Flag(p, ZERO)         \* BNE
      [] opcode = \h30 -> Flag(p, NEGATIVE)      \* BMI
      [] opcode = \h10 -> ~Flag(p, NEGATIVE)     \* BPL
      [] opcode = \h50 -> ~Flag(p, OVERFLOW)     \* BVC
      [] opcode = \h70 -> Flag(p, OVERFLOW)      \* BVS

\* a byte read as a signed offset
Signed(b) == IF b >= 128 THEN b - 256 ELSE b

\* a branch was executed with its condition true
BranchTaken ==
    /\ last.opcode \in BranchOpcodes
    /\ last.done
    /\ FlagCondition(last.opcode, last.pre.p)

(***************************************************************************)
(* C1.  A branch executed by run with its flag condition true leaves       *)
(* PC = (address of the offset byte + 1 + sign_extend(offset)) mod 2^16;   *)
(* with offset 0 that is the instruction right after the branch.           *)
(* The code does not do this: branch() sets the target and the arm of run  *)
(* then adds 1 to it.                                                      *)
(***************************************************************************)
C1_TakenBranchTarget ==
    BranchTaken =>
        program_counter = (last.at + 1 + 1 + Signed(OperandByte(1)) + 65536) % 65536

(***************************************************************************)
(* C2.  After JSR abs at address a with operand t: PC = t, the word a + 2  *)
(* is on the stack, high byte first, and SP has gone down by 2 mod 256.    *)
(* The code leaves PC = t + 2: the arm of run adds 2 after jsr() has set   *)
(* the target.                                                             *)
(***************************************************************************)
C2_JsrTargetAndPush ==
    Executed(\h20) =>
        /\ program_counter = OperandWord
        /\ Cell(memory, STACK + last.pre.sp) = ((last.at + 2) \div 256)
        /\ Cell(memory, STACK + ((last.pre.sp + 255) % 256)) = ((last.at + 2) % 256)
        /\ stack_pointer = (last.pre.sp + 254) % 256

(***************************************************************************)
(* C3.  JSR/RTS round trip: after a JSR at a whose target t holds RTS, the *)
(* next instruction executed is that RTS, and after it PC = a + 3 and SP   *)
(* is what it was before the JSR.  In the code the instruction executed    *)
(* after the JSR is the one at t + 2 (see C2), not the RTS at t.           *)
(***************************************************************************)
\* the iteration before the last was a JSR whose target holds RTS
JsrToRts ==
    /\ last2.opcode = \h20
    /\ last2.done
    /\ last.opcode # -2
    /\ Cell(last.pre.mem, Cell(last2.pre.mem, last2.at + 1)
                          + 256 * Cell(last2.pre.mem, last2.at + 2)) = \h60

C3_JsrRtsRoundTrip ==
    JsrToRts =>
        /\ Executed(\h60)
        /\ last.at = Cell(last2.pre.mem, last2.at + 1) + 256 * Cell(last2.pre.mem, last2.at + 2)
        /\ program_counter = last2.at + 3
        /\ stack_pointer = last2.pre.sp

(***************************************************************************)
(* C4.  ADC with accumulator a, operand b and carry-in C gives             *)
(* sum = a + b + C, A = sum mod 256, carry-out = (sum >= 256),             *)
(* Z = (A = 0), N = bit 7 of A, V = ((a xor A) and (b xor A) and 0x80) # 0.*)
(* The code adds value + carry as a u8 first: with b = 0xFF and C = 1 that *)
(* addition overflows, so the build with overflow checks panics and the    *)
(* build without them loses the carry-out.                                 *)
(***************************************************************************)
\* the documented result of adding b and the carry of p to a
AdcSum(a, b, p) == a + b + (IF Flag(p, CARRY) THEN 1 ELSE 0)

\* the registers after the last instruction are those of the documented addition to a
AddedAsDocumented(a, b, p) ==
    LET sum == AdcSum(a, b, p)
        res == sum % 256
    IN  /\ last.done
        /\ register_a = res
        /\ Flag(status, CARRY) = (sum >= 256)
        /\ Flag(status, ZERO) = (res = 0)
        /\ Flag(status, NEGATIVE) = (res >= 128)
        /\ Flag(status, OVERFLOW) = (BitAnd(BitAnd(BitXor(a, res), BitXor(b, res)), 128) # 0)

\* the last iteration fetched opcode op with its operand byte in memory
Fetched(op) == last.opcode = op /\ InBounds(last.at + 1)

C4_AdcAddsWithCarry ==
    Fetched(\h69) => AddedAsDocumented(last.pre.a, OperandByte(1), last.pre.p)

(***************************************************************************)
(* C5.  SBC with accumulator a, operand m and carry-in C gives the result  *)
(* of ADC on the one's complement of m: A = (a + (255 - m) + C) mod 256,   *)
(* carry-out = (a + (255 - m) + C >= 256), Z, N and V from that addition.  *)
(* The code does pass 255 - m to the shared addition, which fails as in C4 *)
(* when 255 - m = 0xFF and C = 1, that is for SBC #0 after SEC.            *)
(***************************************************************************)
C5_SbcIsAdcOfComplement ==
    Fetched(\hE9) => AddedAsDocumented(last.pre.a, 255 - OperandByte(1), last.pre.p)

(***************************************************************************)
(* The documented 6502 instruction set: its 151 opcode bytes, by the       *)
(* documented length of the instruction.                                   *)
(***************************************************************************)
\* implied and accumulator instructions
OneByteOpcodes == {
    \h00, \h08, \h0A, \h18, \h28, \h2A, \h38, \h40, \h48, \h4A, \h58, \h60,
    \h68, \h6A, \h78, \h88, \h8A, \h98, \h9A, \hA8, \hAA, \hB8, \hBA, \hC8,
    \hCA, \hD8, \hE8, \hEA, \hF8 }

\* immediate, zero-page, relative and indexed-indirect instructions
TwoByteOpcodes == {
    \h01, \h05, \h06, \h09, \h10, \h11, \h15, \h16, \h21, \h24, \h25, \h26,
    \h29, \h30, \h31, \h35, \h36, \h41, \h45, \h46, \h49, \h50, \h51, \h55,
    \h56, \h61, \h65, \h66, \h69, \h70, \h71, \h75, \h76, \h81, \h84, \h85,
    \h86, \h90, \h91, \h94, \h95, \h96, \hA0, \hA1, \hA2, \hA4, \hA5, \hA6,
    \hA9, \hB0, \hB1, \hB4, \hB5, \hB6, \hC0, \hC1, \hC4, \hC5, \hC6, \hC9,
    \hD0, \hD1, \hD5, \hD6, \hE0, \hE1, \hE4, \hE5, \hE6, \hE9, \hF0, \hF1,
    \hF5, \hF6 }

\* absolute and indirect instructions
ThreeByteOpcodes == {
    \h0D, \h0E, \h19, \h1D, \h1E, \h20, \h2C, \h2D, \h2E, \h39, \h3D, \h3E,
    \h4C, \h4D, \h4E, \h59, \h5D, \h5E, \h6C, \h6D, \h6E, \h79, \h7D, \h7E,
    \h8C, \h8D, \h8E, \h99, \h9D, \hAC, \hAD, \hAE, \hB9, \hBC, \hBD, \hBE,
    \hCC, \hCD, \hCE, \hD9, \hDD, \hDE, \hEC, \hED, \hEE, \hF9, \hFD, \hFE }

DocumentedOpcodes == OneByteOpcodes \cup TwoByteOpcodes \cup ThreeByteOpcodes

DocumentedLength(opcode) ==
    IF opcode \in OneByteOpcodes THEN 1 ELSE IF opcode \in TwoByteOpcodes THEN 2 ELSE 3

(***************************************************************************)
(* C6.  Every instruction the loop of run decodes and completes, with its  *)
(* opcode byte at address base, leaves PC = base + its documented length   *)
(* (1, 2 or 3), unless it sets PC itself: JMP, JSR, RTS, RTI or a taken    *)
(* branch.                                                                 *)
(***************************************************************************)
\* the last instruction sets PC itself
SetsPC == last.opcode \in {\h4C, \h6C, \h20, \h60, \h40} \/ BranchTaken

\* the last iteration decoded an instruction and ran it to its end
Decoded == last.opcode >= 0 /\ last.done

HostWriteReadBack ==
    (wrote # NoWrite /\ last = NoInstr) =>
        /\ panic = NoPanic
        /\ mem_read(Cpu, wrote.addr) = Val(wrote.data)

C7_MemoryAccessNeverFails == HostWriteReadBack /\ panic # IndexOutOfBounds

(***************************************************************************)
(* C8.  A decoded instruction completes from any CPU state, 8-bit and      *)
(* 16-bit arithmetic wrapping silently: run aborts only with UnknownOpcode *)
(* or InvalidAddressingMode.                                               *)
(* The code aborts in other ways as well: on arithmetic overflow in a      *)
(* build with overflow checks (value + carry, pos + 1, the +1 of RTS, the  *)
(* PC advance) and on any access to address 0xFFFF.                        *)
(***************************************************************************)
\* run has aborted
RunAborted == phase = "panicked" /\ last.opcode # -2

C8_OnlyDecodeErrorsAbort ==
    RunAborted => panic \in {UnknownOpcode, InvalidAddressingMode}

(***************************************************************************)
(* C9.  When run fetches a byte that is no opcode of the table, execution  *)
(* stops in the UnknownOpcode outcome: the byte is not executed as another *)
(* instruction (registers, flags, stack pointer and memory are untouched)  *)
(* and is not skipped (run does not go on).                                *)
(***************************************************************************)
\* the last iteration fetched a byte that is no documented opcode
FetchedUnknown == last.opcode \in (Byte \ DocumentedOpcodes)

\* the last iteration left everything but PC as it found it
NothingExecuted ==
    /\ register_a = last.pre.a
    /\ register_x = last.pre.x
    /\ register_y = last.pre.y
    /\ status = last.pre.p
    /\ stack_pointer = last.pre.sp
    /\ memory = last.pre.mem

C9_UnknownOpcodeStops ==
    FetchedUnknown =>
        /\ phase = "panicked"
        /\ panic = UnknownOpcode
        /\ ~last.done
        /\ NothingExecuted

\* the byte 0x02 was fetched and run stopped on it
C9_Witness ==
    /\ last.opcode = \h02
    /\ phase = "panicked"
    /\ panic = UnknownOpcode
    /\ program_counter = last.at + 1

(***************************************************************************)
(* C10.  Each of the 151 documented opcode bytes is decoded and executed   *)
(* by run; none reaches the unknown-opcode failure.                        *)
(* The match of run has arms for 69 of them only: TAY (0xA8), for one,     *)
(* falls through to the unknown-opcode arm.                                *)
(***************************************************************************)
C10_DocumentedOpcodesDecoded ==
    last.opcode \in DocumentedOpcodes => panic # UnknownOpcode

(***************************************************************************)
(* C11.  run returns exactly when the opcode fetched is 0x00 (BRK), and    *)
(* that is no error; the BRK leaves PC one past the BRK byte and changes   *)
(* no other register, no flag, not SP and no memory byte.                  *)
(***************************************************************************)
C11_BrkReturns ==
    /\ phase = "returned" => last.opcode = \h00
    /\ last.opcode = \h00 =>
        /\ phase = "returned"
        /\ panic = NoPanic
        /\ program_counter = last.at + 1
        /\ NothingExecuted

\* run has returned at the BRK that follows two INX
C11_Witness ==
    /\ phase = "returned"
    /\ last.opcode = \h00
    /\ last2.opcode = \hE8
    /\ last3.opcode = \hE8
    /\ program_counter = last.at + 1

(***************************************************************************)
(* C12.  From any CPU state, reset() sets A = X = Y = P = 0 and PC to the  *)
(* little-endian word stored at 0xFFFC/0xFFFD, and leaves every memory     *)
(* byte unchanged.                                                         *)
(***************************************************************************)
\* the step is a call of reset: of the host's operations before and after a
\* run, the only one that is neither load nor a write counted in `writes`
ResetStep ==
    /\ phase \in {"new", "loaded", "ready", "returned"}
    /\ phase' \in {"ready", "reset"}
    /\ writes' = writes

ResetEffect ==
    /\ register_a' = 0
    /\ register_x' = 0
    /\ register_y' = 0
    /\ status' = 0
    /\ program_counter' = Cell(memory, 65532) + 256 * Cell(memory, 65533)
    /\ memory' = memory
    /\ panic' = NoPanic

C12_ResetZeroesAndLoadsVector == [][ResetStep => ResetEffect]_vars

\* reset after LDA #$05; STA $FFFC has run: the vector is 0x8005 and PC is its value
C12_Witness ==
    /\ phase = "reset"
    /\ Cell(memory, 65532) = 5
    /\ Cell(memory, 65533) = 128
    /\ program_counter = 32773
    /\ register_a = 0
    /\ status = 0

(***************************************************************************)
(* C13.  SP = 0xFD right after new() and right after every reset(),        *)
(* whatever ran before the reset.                                          *)
(* reset() in the code does not assign stack_pointer: after a run that     *)
(* pushed or pulled, SP stays where the run left it.                       *)
(***************************************************************************)
\* a CPU just built, or just reset after a run of a program on a CPU whose
\* fields the host never wrote
FreshOrResetAfterRun == phase = "new" \/ (phase = "reset" /\ writes = 0)

C13_SpAfterNewAndReset == FreshOrResetAfterRun => stack_pointer = 253

(***************************************************************************)
(* C14.  For every program that fits between the base address 0x8000 and   *)
(* the top of the address space, after load(bytes) and reset(): PC is the  *)
(* base address and memory[base + i] = bytes[i] for every i < len(bytes).  *)
(* In the code a program of 0x8000 bytes, which reaches the top, makes     *)
(* load panic (the array ends at 0xFFFE), and a program that reaches the   *)
(* reset vector has its bytes at 0xFFFC/0xFFFD overwritten by the vector.  *)
(***************************************************************************)
\* a program that fits has been passed to load, and nothing but reset has
\* been called since
LoadedFittingProgram ==
    /\ Len(loaded) > 0
    /\ PROGRAM_BASE + Len(loaded) <= 65536
    /\ writes = 0
    /\ last = NoInstr
    /\ phase \in {"loaded", "ready", "panicked"}

\* memory holds the program at the base address
ProgramInMemory ==
    \A i \in 1..Len(loaded) : Cell(memory, PROGRAM_BASE + i - 1) = loaded[i]

C14_LoadThenReset ==
    LoadedFittingProgram =>
        /\ panic = NoPanic
        /\ phase = "ready" => (program_counter = PROGRAM_BASE /\ ProgramInMemory)

(***************************************************************************)
(* C15.  Stack round trip: PHA and then PLA leave A = the value pushed and *)
(* SP = its value before the PHA, for every SP (at SP = 0x00 the push      *)
(* wraps SP to 0xFF) and whatever A was given between the two.             *)
(***************************************************************************)
\* PLA has run right after a PHA, or after a PHA and an LDA # that changed A
PulledAfterPush ==
    /\ Executed(\h68)
    /\ \/ last2.opcode = \h48 /\ last2.done
       \/ /\ last2.opcode = \hA9 /\ last2.done
          /\ last3.opcode = \h48 /\ last3.done

\* the CPU before that PHA
BeforePush == IF last2.opcode = \h48 THEN last2.pre ELSE last3.pre

C15_PhaPlaRoundTrip ==
    PulledAfterPush =>
        /\ register_a = BeforePush.a
        /\ stack_pointer = BeforePush.sp

\* 0x80 pushed at SP = 0x00, A overwritten with 0x55, and 0x80 pulled back
C15_Witness ==
    /\ PulledAfterPush
    /\ last2.opcode = \hA9
    /\ last3.pre.a = 128
    /\ last3.pre.sp = 0
    /\ last.pre.a = 85
    /\ last.pre.sp = 255
    /\ register_a = 128
    /\ stack_pointer = 0

(***************************************************************************)
(* C16.  After LDA, in any of its addressing modes, of a byte v: A = v,    *)
(* Z = (v = 0), N = bit 7 of v, and the other bits of P (C, I, D, B, U, V) *)
(* are unchanged; from P = 0, LDA #$00 leaves P = 0x02 and LDA #$80 leaves *)
(* P = 0x80.                                                               *)
(***************************************************************************)
LdaOpcodes == {\hA9, \hA5, \hB5, \hAD, \hBD, \hB9, \hA1, \hB1}

\* the bits of the status byte p other than Z and N
OtherThanZN(p) == BitAnd(p, 255 - ZERO - NEGATIVE)

\* Z and N of the status register are those of the byte v
ZNOf(v) ==
    /\ Flag(status, ZERO) = (v = 0)
    /\ Flag(status, NEGATIVE) = (v >= 128)

C16_LdaSetsZeroAndNegative ==
    (last.opcode \in LdaOpcodes /\ last.done) =>
        /\ last.opcode = \hA9 => register_a = OperandByte(1)
        /\ ZNOf(register_a)
        /\ OtherThanZN(status) = OtherThanZN(last.pre.p)

\* LDA #$80 from P = 0 has left P = 0x80
C16_Witness ==
    /\ Executed(\hA9)
    /\ OperandByte(1) = 128
    /\ last.pre.p = 0
    /\ register_a = 128
    /\ status = 128

(***************************************************************************)
(* C17.  CMP, CPX and CPY of the register r (A, X, Y) with the operand m   *)
(* set C = (r >= m), Z = (r = m), N = bit 7 of (r - m) mod 256, and leave  *)
(* A, X, Y, V and memory unchanged.                                        *)
(***************************************************************************)
CompareOpcodes == {\hC9, \hE0, \hC0}

\* the register the last compare instruction compared
ComparedRegister ==
    CASE last.opcode = \hC9 -> last.pre.a
      [] last.opcode = \hE0 -> last.pre.x
      [] last.opcode = \hC0 -> last.pre.y

C17_CompareSetsCZN ==
    (last.opcode \in CompareOpcodes /\ last.done) =>
        /\ Flag(status, CARRY) = (ComparedRegister >= OperandByte(1))
        /\ Flag(status, ZERO) = (ComparedRegister = OperandByte(1))
        /\ Flag(status, NEGATIVE) = (((ComparedRegister - OperandByte(1) + 256) % 256) >= 128)
        /\ Flag(status, OVERFLOW) = Flag(last.pre.p, OVERFLOW)
        /\ register_a = last.pre.a
        /\ register_x = last.pre.x
        /\ register_y = last.pre.y
        /\ memory = last.pre.mem

\* CMP #$80 with A = 0x7F from P = 0: no carry, not zero, negative
C17_Witness ==
    /\ Executed(\hC9)
    /\ last.pre.a = 127
    /\ OperandByte(1) = 128
    /\ last.pre.p = 0
    /\ status = 128

(***************************************************************************)
(* C18.  AND, ORA and EOR of the accumulator a with the operand m leave    *)
(* A = a AND m, a OR m, a XOR m, set Z and N from that result and change   *)
(* no other flag, register or memory byte; from P = 0 a non-zero result    *)
(* with bit 7 clear leaves P = 0.                                          *)
(***************************************************************************)
LogicOpcodes == {\h29, \h09, \h49}

\* the documented result of the last logic instruction
LogicResult ==
    CASE last.opcode = \h29 -> BitAnd(last.pre.a, OperandByte(1))
      [] last.opcode = \h09 -> BitOr(last.pre.a, OperandByte(1))
      [] last.opcode = \h49 -> BitXor(last.pre.a, OperandByte(1))

C18_LogicOnAccumulator ==
    (last.opcode \in LogicOpcodes /\ last.done) =>
        /\ register_a = LogicResult
        /\ ZNOf(LogicResult)
        /\ OtherThanZN(status) = OtherThanZN(last.pre.p)
        /\ register_x = last.pre.x
        /\ register_y = last.pre.y
        /\ stack_pointer = last.pre.sp
        /\ memory = last.pre.mem

\* EOR #$80 with A = 0xFF from P = 0 has left A = 0x7F and P = 0
C18_Witness ==
    /\ Executed(\h49)
    /\ last.pre.a = 255
    /\ OperandByte(1) = 128
    /\ last.pre.p = 0
    /\ register_a = 127
    /\ status = 0

(***************************************************************************)
(* C19.  INX, INY, DEX, DEY, INC and DEC add or subtract 1 modulo 256      *)
(* (0xFF + 1 = 0x00, 0x00 - 1 = 0xFF) without error and set Z and N from   *)
(* the wrapped result; two INX from X = 0xFF leave X = 0x01, Z = 0, N = 0. *)
(***************************************************************************)
RegisterStepOpcodes == {\hE8, \hC8, \hCA, \h88}
MemoryStepOpcodes == {\hE6, \hC6}

\* the last iteration fetched an increment or a decrement, whole in memory
FetchedStep ==
    \/ last.opcode \in RegisterStepOpcodes
    \/ last.opcode \in MemoryStepOpcodes /\ InBounds(last.at + 1)

\* what the last increment or decrement adds, modulo 256
StepDelta == IF last.opcode \in {\hE8, \hC8, \hE6} THEN 1 ELSE 255

\* the byte it steps, before, and the same byte after
SteppedBefore ==
    CASE last.opcode \in {\hE8, \hCA} -> last.pre.x
      [] last.opcode \in {\hC8, \h88} -> last.pre.y
      [] OTHER -> Cell(last.pre.mem, OperandByte(1))

SteppedAfter ==
    CASE last.opcode \in {\hE8, \hCA} -> register_x
      [] last.opcode \in {\hC8, \h88} -> register_y
      [] OTHER -> Cell(memory, OperandByte(1))

C19_StepsWrap ==
    FetchedStep =>
        /\ last.done
        /\ SteppedAfter = (SteppedBefore + StepDelta) % 256
        /\ ZNOf(SteppedAfter)

\* two INX from X = 0xFF have left X = 0x01 with Z and N clear
C19_Witness ==
    /\ Executed(\hE8)
    /\ last2.opcode = \hE8
    /\ last2.pre.x = 255
    /\ last.pre.x = 0
    /\ register_x = 1
    /\ ~Flag(status, ZERO)
    /\ ~Flag(status, NEGATIVE)

(***************************************************************************)
(* C20.  The byte LDA reads and the byte STA writes is at the effective    *)
(* address of the mode table: ZeroPage = read8(PC); ZeroPage,X =           *)
(* (read8(PC) + X) mod 256; Absolute = read16(PC); Absolute,X and          *)
(* Absolute,Y = (read16(PC) + X or Y) mod 2^16; (Indirect,X) =             *)
(* read16((read8(PC) + X) mod 256); (Indirect),Y =                         *)
(* (read16(read8(PC)) + Y) mod 2^16.                                       *)
(***************************************************************************)
\* read16 of the table, in the memory before the last instruction
Read16(p) == Cell(last.pre.mem, p) + 256 * Cell(last.pre.mem, (p + 1) % 65536)

LdaMemoryOpcodes == {\hA5, \hB5, \hAD, \hBD, \hB9, \hA1, \hB1}
StaOpcodes == {\h85, \h95, \h8D, \h9D, \h99, \h81, \h91}

\* the effective address of the table for the mode of the last LDA or STA
TableAddress ==
    CASE last.opcode \in {\hA5, \h85} -> OperandByte(1)
      [] last.opcode \in {\hB5, \h95} -> (OperandByte(1) + last.pre.x) % 256
      [] last.opcode \in {\hAD, \h8D} -> Read16(last.at + 1)
      [] last.opcode \in {\hBD, \h9D} -> (Read16(last.at + 1) + last.pre.x) % 65536
      [] last.opcode \in {\hB9, \h99} -> (Read16(last.at + 1) + last.pre.y) % 65536
      [] last.opcode \in {\hA1, \h81} -> Read16((OperandByte(1) + last.pre.x) % 256)
      [] last.opcode \in {\hB1, \h91} -> (Read16(OperandByte(1)) + last.pre.y) % 65536

\* memory is what it was before the last instruction, but for the cell at addr
OnlyCellWritten(addr) ==
    \A a \in (DOMAIN memory \cup DOMAIN last.pre.mem) \ {addr} :
        Cell(memory, a) = Cell(last.pre.mem, a)

C20_EffectiveAddresses ==
    /\ (last.opcode \in LdaMemoryOpcodes /\ last.done) =>
            register_a = Cell(last.pre.mem, TableAddress)
    /\ (last.opcode \in StaOpcodes /\ last.done) =>
            /\ Cell(memory, TableAddress) = last.pre.a
            /\ OnlyCellWritten(TableAddress)

\* STA $80,X with X = 0xC0 has written A at 0x0040, inside page 0
C20_Witness ==
    /\ Executed(\h95)
    /\ OperandByte(1) = 128
    /\ last.pre.x = 192
    /\ last.pre.a = 192
    /\ Cell(memory, 64) = 192
    /\ Cell(memory, 320) = 0

(***************************************************************************)
(* C22.  PHP writes (P OR 0x30) to the stack and leaves P unchanged; PLP   *)
(* sets P to (popped byte AND NOT 0x10) OR 0x20.  Hence PHP and then PLP   *)
(* leave SP unchanged and P as it was but for B (bit 4) cleared and U      *)
(* (bit 5) set.                                                            *)
(***************************************************************************)
\* the status byte p with B and U set
WithBreakAndUnused(p) ==
    p + (IF Flag(p, 16) THEN 0 ELSE 16) + (IF Flag(p, 32) THEN 0 ELSE 32)

\* the status byte b with B cleared and U set
WithoutBreak(b) ==
    b - (IF Flag(b, 16) THEN 16 ELSE 0) + (IF Flag(b, 32) THEN 0 ELSE 32)

C22_PhpPlp ==
    /\ Executed(\h08) =>
            /\ Cell(memory, STACK + last.pre.sp) = WithBreakAndUnused(last.pre.p)
            /\ status = last.pre.p
    /\ Executed(\h28) =>
            status = WithoutBreak(Cell(last.pre.mem, STACK + ((last.pre.sp + 1) % 256)))
    /\ (Executed(\h28) /\ last2.opcode = \h08 /\ last2.done) =>
            /\ stack_pointer = last2.pre.sp
            /\ status = WithoutBreak(last2.pre.p)

\* PHP; PLP from P = 0xFF has left P = 0xEF and SP where it was
C22_Witness ==
    /\ Executed(\h28)
    /\ last2.opcode = \h08
    /\ last2.pre.p = 255
    /\ Cell(last.pre.mem, STACK + last2.pre.sp) = 255
    /\ status = 239
    /\ stack_pointer = last2.pre.sp

(***************************************************************************)
(* C23.  ROL and ROR rotate the 9-bit quantity (C, value) by one position, *)
(* on the accumulator and on a zero-page byte alike.  ROL: result =        *)
(* ((value << 1) mod 256) OR C_old, C_new = old bit 7.  ROR: result =      *)
(* (value >> 1) OR (C_old << 7), C_new = old bit 0.  Z and N come from the *)
(* result.  So ROL and then ROR of the same operand restore it, and C.     *)
(***************************************************************************)
RolOpcodes == {\h2A, \h26}
RorOpcodes == {\h6A, \h66}

\* the byte the last rotate works on, before it and after it
RotatedBefore ==
    IF last.opcode \in {\h2A, \h6A} THEN last.pre.a
    ELSE Cell(last.pre.mem, OperandByte(1))

RotatedAfter ==
    IF last.opcode \in {\h2A, \h6A} THEN register_a
    ELSE Cell(memory, OperandByte(1))

\* the carry before the last instruction, as a number
CarryIn == IF Flag(last.pre.p, CARRY) THEN 1 ELSE 0

\* the last two instructions are ROL and ROR of the same operand
RolThenRor ==
    /\ last.opcode \in RorOpcodes /\ last.done
    /\ last2.done
    /\ \/ last2.opcode = \h2A /\ last.opcode = \h6A
       \/ /\ last2.opcode = \h26 /\ last.opcode = \h66
          /\ Cell(last2.pre.mem, last2.at + 1) = OperandByte(1)

C23_Rotates ==
    /\ (last.opcode \in RolOpcodes /\ last.done) =>
            /\ RotatedAfter = ((RotatedBefore * 2) % 256) + CarryIn
            /\ Flag(status, CARRY) = (RotatedBefore >= 128)
            /\ ZNOf(RotatedAfter)
    /\ (last.opcode \in RorOpcodes /\ last.done) =>
            /\ RotatedAfter = (RotatedBefore \div 2) + 128 * CarryIn
            /\ Flag(status, CARRY) = (RotatedBefore % 2 = 1)
            /\ ZNOf(RotatedAfter)
    /\ RolThenRor =>
            /\ RotatedAfter = (IF last.opcode = \h6A THEN last2.pre.a
                               ELSE Cell(last2.pre.mem, OperandByte(1)))
            /\ Flag(status, CARRY) = Flag(last2.pre.p, CARRY)

\* ROL A; ROR A from A = 0xFF with C clear: 0xFE with C set, and back
C23_Witness ==
    /\ Executed(\h6A)
    /\ last2.opcode = \h2A
    /\ last2.pre.a = 255
    /\ ~Flag(last2.pre.p, CARRY)
    /\ last.pre.a = 254
    /\ Flag(last.pre.p, CARRY)
    /\ register_a = 255
    /\ ~Flag(status, CARRY)

(***************************************************************************)
(* C24.  The InvalidAddressingMode failure is unreachable from guest       *)
(* programs: whatever run executes, get_operand_address is never called    *)
(* with the Implied, Accumulator or NoneAddressing mode.                   *)
(***************************************************************************)
C24_NoInvalidAddressingMode == panic # InvalidAddressingMode

\* ASL A of 0x80 has run, on the accumulator and with no operand address
C24_Witness ==
    /\ Executed(\h0A)
    /\ last.pre.a = 128
    /\ register_a = 0
    /\ Flag(status, CARRY)
    /\ memory = last.pre.mem
    /\ panic = NoPanic

(***************************************************************************)
(* C25.  Every stack write and read of PHA, PHP, PLA, PLP, JSR, RTS and    *)
(* RTI is in page 1 (0x0100..0x01FF): a push stores at 0x0100 + SP and     *)
(* then decrements SP modulo 256 (at SP = 0x00 it leaves SP = 0xFF), a pop *)
(* increments SP modulo 256 and then reads 0x0100 + SP (at SP = 0xFF it    *)
(* reads 0x0100).                                                          *)
(***************************************************************************)
\* the page-1 address n bytes above the stack pointer of before the last
\* instruction, modulo 256
StackSlot(n) == 256 + ((last.pre.sp + n) % 256)

\* the byte there before the last instruction
Slot(n) == Cell(last.pre.mem, StackSlot(n))

\* the cells the last instruction changed
ChangedCells ==
    {a \in DOMAIN memory \cup DOMAIN last.pre.mem : Cell(memory, a) # Cell(last.pre.mem, a)}

C25_StackInPageOne ==
    /\ Executed(\h48) =>
            /\ Cell(memory, StackSlot(0)) = last.pre.a
            /\ ChangedCells \subseteq {StackSlot(0)}
            /\ stack_pointer = (last.pre.sp + 255) % 256
    /\ Executed(\h08) =>
            /\ Cell(memory, StackSlot(0)) = WithBreakAndUnused(last.pre.p)
            /\ ChangedCells \subseteq {StackSlot(0)}
            /\ stack_pointer = (last.pre.sp + 255) % 256
    /\ Executed(\h20) =>
            /\ Cell(memory, StackSlot(0)) = (last.at + 2) \div 256
            /\ Cell(memory, StackSlot(255)) = (last.at + 2) % 256
            /\ ChangedCells \subseteq {StackSlot(0), StackSlot(255)}
            /\ stack_pointer = (last.pre.sp + 254) % 256
    /\ Executed(\h68) =>
            /\ register_a = Slot(1)
            /\ memory = last.pre.mem
            /\ stack_pointer = (last.pre.sp + 1) % 256
    /\ Executed(\h28) =>
            /\ status = WithoutBreak(Slot(1))
            /\ memory = last.pre.mem
            /\ stack_pointer = (last.pre.sp + 1) % 256
    /\ Executed(\h60) =>
            /\ program_counter = (Slot(1) + 256 * Slot(2) + 1) % 65536
            /\ memory = last.pre.mem
            /\ stack_pointer = (last.pre.sp + 2) % 256
    /\ Executed(\h40) =>
            /\ status = WithoutBreak(Slot(1))
            /\ program_counter = Slot(2) + 256 * Slot(3)
            /\ memory = last.pre.mem
            /\ stack_pointer = (last.pre.sp + 3) % 256

\* a pop at SP = 0xFF has read the byte a push at SP = 0x00 stored at 0x0100
C25_Witness ==
    /\ Executed(\h68)
    /\ last.pre.sp = 255
    /\ Cell(last.pre.mem, 256) = 128
    /\ last3.opcode = \h48
    /\ last3.pre.sp = 0
    /\ Cell(last3.pre.mem, 256) = 0
    /\ stack_pointer = 0
    /\ register_a = 128

(***************************************************************************)
(* C26.  Bit 4 (B) of the live status register is 0 in every state reached *)
(* from reset() by executing instructions: reset clears it, no instruction *)
(* sets it when it is clear (PLP and RTI popping a byte with bit 4 set     *)
(* included), and the byte PHP writes to the stack has it set.             *)
(***************************************************************************)
\* an iteration of the loop of run
InstructionStep == phase = "running" /\ steps' = steps + 1

\* the iteration executed PHP to its end
PhpStep == InstructionStep /\ last'.opcode = \h08 /\ last'.done

C26_BreakOnlyOnStack ==
    [][ /\ ResetStep => ~Flag(status', BREAK)
        /\ (InstructionStep /\ ~Flag(status, BREAK)) => ~Flag(status', BREAK)
        /\ PhpStep => Flag(Cell(memory', STACK + stack_pointer), BREAK) ]_vars

\* RTI has popped the byte PHP pushed, bit 4 set, and the live bit 4 is clear
C26_Witness ==
    /\ Executed(\h40)
    /\ last2.opcode = \h08
    /\ last2.done
    /\ ~Flag(last2.pre.p, BREAK)
    /\ Flag(Slot(1), BREAK)
    /\ ~Flag(last.pre.p, BREAK)
    /\ ~Flag(status, BREAK)

(***************************************************************************)
(* C27.  On a freshly constructed CPU, after load(p) and reset(), when p   *)
(* holds only decoded instructions that neither alter control flow (no     *)
(* branch, JMP, JSR, RTS, RTI) nor write memory outside page 1 (no STA,    *)
(* STX, STY, no INC, DEC, no shift or rotate of memory), run does not go   *)
(* on forever: PC strictly increases from instruction to instruction and   *)
(* run eventually stops, at the latest on the zero byte after the program. *)
(***************************************************************************)
ControlFlowRoutines ==
    {"bcc", "bcs", "beq", "bmi", "bne", "bpl", "bvc", "bvs", "jmp", "jsr", "rts", "rti"}

MemoryWritingRoutines == {"sta", "stx", "sty", "inc", "dec"}

ShiftRoutines == {"asl", "lsr", "rol", "ror"}

\* the byte b is the opcode of a decoded instruction the claim allows
StraightLineOpcode(b) ==
    /\ run_arm(b).op \notin {"todo"} \cup ControlFlowRoutines \cup MemoryWritingRoutines
    /\ run_arm(b).op \in ShiftRoutines => run_arm(b).mode = "Accumulator"

\* the bytes of p from index i on are whole instructions the claim allows
RECURSIVE StraightLineFrom(_, _)
StraightLineFrom(p, i) ==
    IF i > Len(p) THEN TRUE
    ELSE /\ StraightLineOpcode(p[i])
         /\ i + run_arm(p[i]).adv <= Len(p)
         /\ StraightLineFrom(p, i + 1 + run_arm(p[i]).adv)

\* p is made of such instructions; a program of one-byte instructions is
\* walked byte by byte, which is what the walk from index 1 comes to
StraightLine(p) ==
    IF \A i \in 1..Len(p) : run_arm(p[i]).adv = 0
    THEN \A i \in 1..Len(p) : StraightLineOpcode(p[i])
    ELSE StraightLineFrom(p, 1)

\* run is executing such a program, loaded and reset on a fresh CPU the
\* host wrote nothing else to
StraightLineRun ==
    /\ phase = "running"
    /\ writes = 0
    /\ Len(loaded) > 0
    /\ StraightLine(loaded)

C27_StraightLineRunStops ==
    /\ [][(StraightLineRun /\ panic' = NoPanic) => program_counter' > program_counter]_vars
    /\ StraightLineRun ~> (phase \in {"returned", "panicked"})

\* a program of three such instructions has run to the zero byte after it
C27_Witness ==
    /\ phase = "returned"
    /\ writes = 0
    /\ Len(loaded) > 0
    /\ StraightLine(loaded)
    /\ last.opcode = 0
    /\ last.at = PROGRAM_BASE + Len(loaded)
    /\ last2.done /\ last2.opcode # 0
    /\ last3.done /\ last3.opcode # 0
    /\ last3.at < last2.at /\ last2.at < last.at
    /\ steps = 4
    /\ program_counter = last.at + 1

====
